---- MODULE Spec2Model ----
(***************************************************************************)
(* Admin content-moderation router (src/unnamed/part_000, lines 1-416):   *)
(* the session-based admin authentication gate and the content-lifecycle   *)
(* handlers that copy objects between two object-store buckets.            *)
(*                                                                         *)
(* One client identity (one IP address, one session cookie) talks to the   *)
(* router; requests are handled one at a time, except in SpecConcurrent,   *)
(* where a handler waiting for a backend leaves room for other requests of *)
(* the same client.  The client presents its                               *)
(* session cookie on every request, whatever the cookie's own expiry says  *)
(* (the server cannot rely on the client dropping it).                     *)
(*                                                                         *)
(* Time is counted in minutes since the process started.  JavaScript       *)
(* strings are sequences of tokens: one character each where the code      *)
(* inspects characters (user names, passwords, file names), longer tokens  *)
(* for the parts it only copies (folder names, ids, e-mail addresses).     *)
(***************************************************************************)
EXTENDS Integers, Sequences, FiniteSets, TLC

VARIABLES
    now,        \* the clock, read by every "new Date()"
    devMode,    \* process.env.NODE_ENV === 'development', fixed at start
    session,    \* the session record of the client in the session store
    expires,    \* the store's expiry time of that record (cookie maxAge)
    hits,       \* authLimiter: requests counted in the current window
    resetTime,  \* authLimiter: end of the current window
    media,      \* bucket renthabit-media: key -> object
    web,        \* bucket renthabit-web-prod: key -> object
    req,        \* the last request handled (route and inputs)
    resp,       \* the response it got
    calls,      \* the object-store calls it issued, in order
    flight      \* the requests begun and not yet answered, in order of arrival

vars == << now, devMode, session, expires, hits, resetTime, media, web,
           req, resp, calls, flight >>

----------------------------------------------------------------------------
(* Bounds of the model *)

\* the clock advances in steps of TickMin minutes ...
TickMin == 30
\* ... up to MaxTime minutes
MaxTime == 150
\* the finer clock of the rate-limiter specification
LimTickMin == 5
LimMaxTime == 20
\* login attempts counted per window before the model stops counting
MaxHits == 7
\* the same, in the specification of the gates
GateMaxHits == 2

----------------------------------------------------------------------------
(* Program constants *)

\* authLimiter.windowMs = 15 * 60 * 1000 ms, in minutes
windowMs == 15
\* authLimiter.max
max == 5
\* sessionConfig.cookie.maxAge = 2 * 60 * 60 * 1000 ms, in minutes
maxAge == 2 * 60
\* requireAuth / pre-filter: sessionTimeout = 2 * 60 * 60 * 1000 ms, in minutes
sessionTimeout == 2 * 60

S3_BUCKETS == [media |-> "renthabit-media", web |-> "renthabit-web-prod"]

----------------------------------------------------------------------------
(* JavaScript values *)

\* a value of a JSON body or of a parsed secret: a string (its characters),
\* a number, or undefined (the field is absent)
Str(cs) == [type |-> "string", chars |-> cs]
Undefined == [type |-> "undefined", chars |-> << >>]
Number7 == [type |-> "number", chars |-> << >>]

\* JavaScript truthiness: undefined and "" are falsy; a non-empty string and
\* the number 7 are truthy
Truthy(v) == \/ v.type = "number"
             \/ v.type = "string" /\ v.chars # << >>

\* x || y
Or(x, y) == IF Truthy(x) THEN x ELSE y

\* String.prototype.toLowerCase on one character (the letters the model uses)
toLowerChar(c) ==
    CASE c = "A" -> "a" [] c = "D" -> "d" [] c = "M" -> "m" [] c = "I" -> "i"
      [] c = "N" -> "n" [] c = "R" -> "r" [] c = "O" -> "o" [] c = "T" -> "t"
      [] OTHER -> c

toLowerCase(cs) == [i \in 1..Len(cs) |-> toLowerChar(cs[i])]

\* String.prototype.trim: drop white space at both ends
RECURSIVE trimStart(_)
trimStart(cs) == IF cs # << >> /\ Head(cs) = " " THEN trimStart(Tail(cs)) ELSE cs

RECURSIVE trimEnd(_)
trimEnd(cs) == IF cs # << >> /\ cs[Len(cs)] = " "
               THEN trimEnd(SubSeq(cs, 1, Len(cs) - 1)) ELSE cs

trim(cs) == trimEnd(trimStart(cs))

----------------------------------------------------------------------------
(* Credentials: the secret backend, the environment, bcrypt *)

admin == << "a", "d", "m", "i", "n" >>
Admin == << "A", "d", "m", "i", "n" >>
bob == << "b", "o", "b" >>

\* A bcrypt hash string: a header, a salt, and the digest.  The digest of a
\* password is stood for by the password's characters, so that
\* compare(p, hash) can be computed; nothing else reads a digest.
bcryptHash(salt, pw) == Str(<< "$2b$12$", salt >> \o pw)

pwSecret == << "p", "w" >>          \* the password of the stored secret
pwFallback == << "f", "b" >>        \* the password the default hash verifies
pwOther == << "x" >>

\* process.env: none of ADMIN_USERNAME, ADMIN_PASSWORD_HASH, ADMIN_EMAIL set
env == [ADMIN_USERNAME |-> Undefined, ADMIN_PASSWORD_HASH |-> Undefined,
        ADMIN_EMAIL |-> Undefined]

\* What the secret backend can answer to GetSecretValue: send() throws
\* (network error, secret not found), or it returns a SecretString, which is
\* well-formed JSON or not; well-formed JSON parses to `value`.
storedCreds == [username |-> Str(Admin),
                passwordHash |-> bcryptHash("saltA", pwSecret),
                email |-> Str(<< "ops@renthabit.com" >>)]
emptyObject == [username |-> Undefined, passwordHash |-> Undefined,
                email |-> Undefined]

SecretBackend ==
    { [send |-> "ok",     wellFormed |-> TRUE,  value |-> storedCreds],
      [send |-> "ok",     wellFormed |-> TRUE,  value |-> emptyObject],
      [send |-> "ok",     wellFormed |-> FALSE, value |-> emptyObject],
      [send |-> "throws", wellFormed |-> FALSE, value |-> emptyObject] }

\* JSON.parse(response.SecretString)
JSONparse(r) == IF r.wellFormed THEN [threw |-> FALSE, value |-> r.value]
                ELSE [threw |-> TRUE, value |-> emptyObject]

fallbackCreds ==
    [username |-> Or(env.ADMIN_USERNAME, Str(admin)),
     passwordHash |-> Or(env.ADMIN_PASSWORD_HASH,
                         bcryptHash("LQv3c1yqBWVHxkd0LHAkCO", pwFallback)),
     email |-> Or(env.ADMIN_EMAIL, Str(<< "admin@renthabit.com" >>))]

\* getAdminCredentials(): the try block returns the parsed secret, the catch
\* block the fallback
getAdminCredentials(backend) ==
    IF backend.send = "throws" \/ JSONparse(backend).threw
    THEN fallbackCreds
    ELSE JSONparse(backend).value

\* bcrypt.compare(data, hash): rejects (throws) unless both are strings;
\* otherwise true iff the hash is a bcrypt hash whose digest is data's
bcryptThrows(data, hash) == data.type # "string" \/ hash.type # "string"

bcryptCompare(data, hash) ==
    /\ Len(hash.chars) >= 2
    /\ hash.chars[1] = "$2b$12$"
    /\ SubSeq(hash.chars, 3, Len(hash.chars)) = data.chars

----------------------------------------------------------------------------
(* The session layer: express-session with its default in-memory store *)

NoTime == 0 - 1

\* no record in the store: req.session is a fresh, empty session
NoSession == [adminAuthenticated |-> FALSE, adminUsername |-> Undefined,
              adminEmail |-> Undefined, loginTime |-> NoTime,
              lastActivity |-> NoTime]

\* session(sessionConfig), on the way in: the store returns the record of
\* the cookie unless it has expired; otherwise the request gets a fresh
\* session
LoadSession(sess, exp, t) ==
    IF sess.adminAuthenticated /\ exp <= t THEN NoSession ELSE sess

\* session(sessionConfig), on the way out: a session that holds data is
\* saved or touched, its expiry moved to maxAge from now; an empty one is
\* not stored (saveUninitialized: false)
StoreExpires(sess, t) == IF sess.adminAuthenticated THEN t + maxAge ELSE 0

----------------------------------------------------------------------------
(* authLimiter: express-rate-limit, in-memory, keyed by client address *)

\* the window of the client after this request is counted
LimiterCount(h, rt, t) ==
    IF rt <= t THEN [hits |-> 1, resetTime |-> t + windowMs]
    ELSE [hits |-> h + 1, resetTime |-> rt]

\* a limiter that lets one request too many through
authLimiterOneTooMany(dev, h, rt, t) ==
    IF dev THEN [next |-> TRUE, hits |-> h, resetTime |-> rt]
    ELSE LET c == LimiterCount(h, rt, t)
         IN [next |-> ~(c.hits > max + 1), hits |-> c.hits,
             resetTime |-> c.resetTime]

\* skip: in development mode the request is passed on uncounted;
\* otherwise it is counted and refused once the count exceeds max
authLimiter(dev, h, rt, t) ==
    IF dev THEN [next |-> TRUE, hits |-> h, resetTime |-> rt]
    ELSE LET c == LimiterCount(h, rt, t)
         IN [next |-> ~(c.hits > max), hits |-> c.hits, resetTime |-> c.resetTime]

----------------------------------------------------------------------------
(* The two gates in front of the admin routes *)

Redirect(msg) == [error |-> msg, redirectTo |-> "/admin/login"]

\* a destroy that leaves the record in the store
DestroySessionKeepsRecord(sess) == [err |-> FALSE, session |-> sess]

\* req.session.destroy(): the in-memory store deletes the record and reports
\* no error
DestroySession(sess) == [err |-> FALSE, session |-> NoSession]

\* requireAuth without its first test: every session is let through
requireAuthNoFlagTest(sess, t) ==
    [next |-> TRUE, session |-> [sess EXCEPT !.lastActivity = t],
     status |-> 0, body |-> Redirect("")]

\* requireAuth letting a request through without recording the activity
requireAuthNoTouch(sess, t) ==
    IF ~sess.adminAuthenticated
    THEN [next |-> FALSE, session |-> sess, status |-> 401,
          body |-> Redirect("Authentication required")]
    ELSE LET lastActivity == IF sess.lastActivity # NoTime
                             THEN sess.lastActivity ELSE sess.loginTime
         IN IF t - lastActivity > sessionTimeout
            THEN [next |-> FALSE, session |-> DestroySession(sess).session,
                  status |-> 401, body |-> Redirect("Session expired")]
            ELSE [next |-> TRUE, session |-> sess,
                  status |-> 0, body |-> Redirect("")]

\* requireAuth(req, res, next)
requireAuth(sess, t) ==
    IF ~sess.adminAuthenticated
    THEN [next |-> FALSE, session |-> sess, status |-> 401,
          body |-> Redirect("Authentication required")]
    ELSE LET lastActivity == IF sess.lastActivity # NoTime
                             THEN sess.lastActivity ELSE sess.loginTime
         IN IF t - lastActivity > sessionTimeout
            THEN [next |-> FALSE, session |-> DestroySession(sess).session,
                  status |-> 401, body |-> Redirect("Session expired")]
            ELSE [next |-> TRUE, session |-> [sess EXCEPT !.lastActivity = t],
                  status |-> 0, body |-> Redirect("")]

\* a pre-filter that compares with >= where requireAuth compares with >
preFilterInclusive(sess, t) ==
    IF /\ sess.adminAuthenticated
       /\ sess.lastActivity # NoTime
       /\ t - sess.lastActivity >= sessionTimeout
    THEN [next |-> FALSE, session |-> DestroySession(sess).session,
          status |-> 401, body |-> Redirect("Session expired")]
    ELSE [next |-> TRUE, session |-> sess, status |-> 0, body |-> Redirect("")]

\* router.use('/api/admin/*', ...): the pre-filter in front of every route
\* registered after it
preFilter(sess, t) ==
    IF /\ sess.adminAuthenticated
       /\ sess.lastActivity # NoTime
       /\ t - sess.lastActivity > sessionTimeout
    THEN [next |-> FALSE, session |-> DestroySession(sess).session,
          status |-> 401, body |-> Redirect("Session expired")]
    ELSE [next |-> TRUE, session |-> sess, status |-> 0, body |-> Redirect("")]

\* the pre-filter, then the named guard of the route
Guarded(sess, t) ==
    LET pf == preFilter(sess, t)
    IN IF pf.next THEN requireAuth(pf.session, t) ELSE pf

----------------------------------------------------------------------------
(* The authentication handlers *)

Error(msg) == [error |-> msg]

\* the user-name comparison of the legacy router (src/admin-auth.js):
\* strict equality
validUsernameLegacy(username, adminCreds) ==
    username.chars = adminCreds.username.chars

\* username.toLowerCase().trim() === adminCreds.username.toLowerCase().trim()
validUsername(username, adminCreds) ==
    trim(toLowerCase(username.chars)) = trim(toLowerCase(adminCreds.username.chars))

\* a failure response that tells which check failed
loginFailureTellsWhich(validU, validP) ==
    [status |-> 401,
     body |-> Error(IF validU THEN "Invalid password" ELSE "Unknown user")]

\* the else branch of the login handler
loginFailure(validU, validP) ==
    [status |-> 401, body |-> Error("Invalid credentials")]

\* a login handler that writes the user name into the session before it
\* checks the credentials
loginHandlerWritesEarly(sess, username, password, backend, t) ==
    IF ~Truthy(username) \/ ~Truthy(password)
    THEN [session |-> sess, status |-> 400,
          body |-> Error("Username and password required")]
    ELSE LET adminCreds == getAdminCredentials(backend)
             early == [sess EXCEPT !.adminUsername = username]
         IN IF \/ username.type # "string"
               \/ adminCreds.username.type # "string"
               \/ bcryptThrows(password, adminCreds.passwordHash)
            THEN [session |-> early, status |-> 500,
                  body |-> Error("Authentication service unavailable")]
            ELSE LET validU == validUsername(username, adminCreds)
                     validP == bcryptCompare(password, adminCreds.passwordHash)
                 IN IF validU /\ validP
                    THEN [session |-> [adminAuthenticated |-> TRUE,
                                       adminUsername |-> adminCreds.username,
                                       adminEmail |-> adminCreds.email,
                                       loginTime |-> t,
                                       lastActivity |-> t],
                          status |-> 200,
                          body |-> [success |-> TRUE,
                                    message |-> "Authentication successful",
                                    redirectTo |-> "/admin/dashboard"]]
                    ELSE [session |-> early,
                          status |-> loginFailure(validU, validP).status,
                          body |-> loginFailure(validU, validP).body]

\* the handler of POST /api/admin/auth/login
loginHandler(sess, username, password, backend, t) ==
    IF ~Truthy(username) \/ ~Truthy(password)
    THEN [session |-> sess, status |-> 400,
          body |-> Error("Username and password required")]
    ELSE LET adminCreds == getAdminCredentials(backend)
         IN IF \/ username.type # "string"           \* username.toLowerCase
               \/ adminCreds.username.type # "string"
               \/ bcryptThrows(password, adminCreds.passwordHash)
            THEN [session |-> sess, status |-> 500,
                  body |-> Error("Authentication service unavailable")]
            ELSE LET validU == validUsername(username, adminCreds)
                     validP == bcryptCompare(password, adminCreds.passwordHash)
                 IN IF validU /\ validP
                    THEN [session |-> [adminAuthenticated |-> TRUE,
                                       adminUsername |-> adminCreds.username,
                                       adminEmail |-> adminCreds.email,
                                       loginTime |-> t,
                                       lastActivity |-> t],
                          status |-> 200,
                          body |-> [success |-> TRUE,
                                    message |-> "Authentication successful",
                                    redirectTo |-> "/admin/dashboard"]]
                    ELSE [session |-> sess,
                          status |-> loginFailure(validU, validP).status,
                          body |-> loginFailure(validU, validP).body]

\* the status handler of the legacy router (src/admin-auth.js), which
\* reports no email
statusHandlerLegacy(sess) ==
    IF sess.adminAuthenticated
    THEN [session |-> sess, status |-> 200,
          body |-> [authenticated |-> TRUE,
                    username |-> sess.adminUsername,
                    loginTime |-> sess.loginTime,
                    lastActivity |-> sess.lastActivity]]
    ELSE [session |-> sess, status |-> 200,
          body |-> [authenticated |-> FALSE]]

\* the handler of GET /api/admin/auth/status
statusHandler(sess) ==
    IF sess.adminAuthenticated
    THEN [session |-> sess, status |-> 200,
          body |-> [authenticated |-> TRUE,
                    username |-> sess.adminUsername,
                    email |-> sess.adminEmail,
                    loginTime |-> sess.loginTime,
                    lastActivity |-> sess.lastActivity]]
    ELSE [session |-> sess, status |-> 200,
          body |-> [authenticated |-> FALSE]]

\* a logout that answers without destroying the session
logoutHandlerKeepsSession(sess) ==
    [session |-> sess, status |-> 200,
     body |-> [success |-> TRUE, message |-> "Logged out successfully"]]

\* the handler of POST /api/admin/auth/logout
logoutHandler(sess) ==
    LET d == DestroySession(sess)
    IN IF d.err
       THEN [session |-> sess, status |-> 500, body |-> Error("Logout failed")]
       ELSE [session |-> d.session, status |-> 200,
             body |-> [success |-> TRUE, message |-> "Logged out successfully"]]

----------------------------------------------------------------------------
(* Object keys *)

\* A key is a string: a sequence of tokens, where "/" is a token of its own,
\* the characters of a file name are tokens of their own, and a directory
\* name or an identifier is one token.

\* the characters that /[^a-zA-Z0-9.-]/ does not match, among those of the
\* model's file names
SafeChars == { "a", "b", "c", "j", "p", "g", "x", "1", "2", ".", "-" }

\* fileName.replace(/[^a-zA-Z0-9.-]/g, '_')
cleanChar(c) == IF c \in SafeChars THEN c ELSE "_"
clean(fileName) == [i \in 1..Len(fileName) |-> cleanChar(fileName[i])]

\* str.replace('.', '_enhanced.'): the first occurrence only
RECURSIVE replaceFirstDot(_)
replaceFirstDot(cs) ==
    IF cs = << >> THEN << >>
    ELSE IF Head(cs) = "." THEN << "_enhanced", "." >> \o Tail(cs)
    ELSE << Head(cs) >> \o replaceFirstDot(Tail(cs))

\* `${v}` in a template literal
Interpolate(v) ==
    IF v.type = "string" THEN v.chars
    ELSE IF v.type = "number" THEN << "7" >>
    ELSE << "undefined" >>

\* the UTC date changes MidnightAt minutes after the process started
MidnightAt == 60

\* new Date().toISOString().split('T')[0]
isoDate(t) == IF t < MidnightAt THEN "2025-08-14" ELSE "2025-08-15"

\* s3Key.split('/').pop(): what follows the last "/"
RECURSIVE lastSegment(_)
lastSegment(cs) ==
    IF cs = << >> THEN << >>
    ELSE IF cs[Len(cs)] = "/" THEN << >>
    ELSE lastSegment(SubSeq(cs, 1, Len(cs) - 1)) \o << cs[Len(cs)] >>

\* generateS3Key with a stage name that paths does not have: paths[stage] is
\* undefined and the pending path is returned
generateS3KeyFallsBack(stage, userId, propertyId, fileName, t) ==
    << "pending-uploads", "/" >> \o Interpolate(userId)
      \o << "/", "property-" >> \o Interpolate(propertyId)
      \o << "/", "images", "/" >> \o clean(fileName)

\* generateS3Key putting the timestamp into every path
generateS3KeyDatedPaths(stage, userId, propertyId, fileName, t) ==
    LET timestamp == isoDate(t)
        cleanFileName == clean(fileName)
        dir(top, sub) == << top, "/" >> \o Interpolate(userId)
                           \o << "/", "property-" >> \o Interpolate(propertyId)
                           \o << "/", sub, "/", timestamp, "_" >>
    IN CASE stage = "approved_original" ->
              dir("approved-content", "original") \o cleanFileName
         [] stage = "approved_edited" ->
              dir("approved-content", "edited") \o replaceFirstDot(cleanFileName)
         [] stage = "featured" ->
              << "featured-showcase", "/", "curated-properties", "/",
                 timestamp, "_" >> \o cleanFileName
         [] OTHER ->
              dir("pending-uploads", "images") \o cleanFileName

\* generateS3Key(stage, userId, propertyId, fileName)
generateS3Key(stage, userId, propertyId, fileName, t) ==
    LET timestamp == isoDate(t)
        cleanFileName == clean(fileName)
        dir(top, sub) == << top, "/" >> \o Interpolate(userId)
                           \o << "/", "property-" >> \o Interpolate(propertyId)
                           \o << "/", sub, "/" >>
    IN CASE stage = "approved_original" ->
              dir("approved-content", "original") \o cleanFileName
         [] stage = "approved_edited" ->
              dir("approved-content", "edited") \o replaceFirstDot(cleanFileName)
         [] stage = "featured" ->
              << "featured-showcase", "/", "curated-properties", "/",
                 timestamp, "_" >> \o cleanFileName
         [] OTHER ->
              dir("pending-uploads", "images") \o cleanFileName

----------------------------------------------------------------------------
(* The object store *)

\* A bucket maps the keys it holds to the content of their objects; the
\* Metadata of a copy or put is part of the call, kept in `calls`.

StartsWith(key, prefix) ==
    /\ Len(prefix) <= Len(key)
    /\ SubSeq(key, 1, Len(prefix)) = prefix

\* ListObjectsV2Command({Bucket, Prefix, MaxKeys}): the keys under the prefix
ListObjectsV2(bucket, prefix, maxKeys) ==
    LET under == { k \in DOMAIN bucket : StartsWith(k, prefix) }
        n == Cardinality(under)
    IN IF n <= maxKeys
       THEN [Contents |-> under, KeyCount |-> n]
       ELSE [Contents |-> CHOOSE c \in SUBSET under : Cardinality(c) = maxKeys,
             KeyCount |-> maxKeys]

\* the bucket after an object is written under key
WithObject(bucket, key, content) ==
    [k \in DOMAIN bucket \cup {key} |-> IF k = key THEN content ELSE bucket[k]]

EmptyBucket == [k \in {} |-> ""]

\* a CopyObjectCommand fails when the source key is not in the source bucket
\* or when the call itself fails (outcome "error")
CopyFails(src, sourceKey, outcome) ==
    outcome = "error" \/ sourceKey \notin DOMAIN src

ListCall(bucketName, prefix, maxKeys) ==
    [op |-> "list", bucket |-> bucketName, key |-> prefix, source |-> << >>,
     maxKeys |-> maxKeys, metadata |-> << >>]
CopyCall(bucketName, sourceKey, key, metadata) ==
    [op |-> "copy", bucket |-> bucketName, key |-> key, source |-> sourceKey,
     maxKeys |-> 0, metadata |-> metadata]
PutCall(bucketName, key, metadata) ==
    [op |-> "put", bucket |-> bucketName, key |-> key, source |-> << >>,
     maxKeys |-> 0, metadata |-> metadata]

----------------------------------------------------------------------------
(* The content handlers.  Each yields the response, the two buckets after   *)
(* it and the object-store calls it issued; `outcomes` gives, call by call, *)
(* whether the object store answers ("ok") or the call fails ("error").     *)

Result(status, body, m, w, cs) ==
    [status |-> status, body |-> body, media |-> m, web |-> w, calls |-> cs]

\* the dashboard handler reporting the featured listing's count as the
\* approved count too
dashboardHandlerSameList(sess, m, w, outcomes) ==
    LET prefixes == << << "pending-uploads", "/" >>, << "approved-content", "/" >>,
                       << "featured-showcase", "/" >> >>
        issued == [i \in 1..3 |-> ListCall(S3_BUCKETS.media, prefixes[i], 1000)]
        list(i) == ListObjectsV2(m, prefixes[i], 1000)
        failed == { i \in 1..3 : outcomes[i] = "error" }
    IN IF failed # {}
       THEN LET first == CHOOSE i \in failed : \A j \in failed : i <= j
            IN Result(500, Error("Failed to load dashboard"), m, w,
                      SubSeq(issued, 1, first))
       ELSE Result(200,
                   [message |-> "Admin dashboard data",
                    user |-> [username |-> sess.adminUsername,
                              email |-> sess.adminEmail],
                    stats |-> [pendingUploads |-> list(1).KeyCount,
                               approvedContent |-> list(3).KeyCount,
                               featuredContent |-> list(3).KeyCount,
                               s3Buckets |-> S3_BUCKETS]],
                   m, w, issued)

\* the handler of GET /api/admin/dashboard
dashboardHandler(sess, m, w, outcomes) ==
    LET prefixes == << << "pending-uploads", "/" >>, << "approved-content", "/" >>,
                       << "featured-showcase", "/" >> >>
        issued == [i \in 1..3 |-> ListCall(S3_BUCKETS.media, prefixes[i], 1000)]
        list(i) == ListObjectsV2(m, prefixes[i], 1000)
        failed == { i \in 1..3 : outcomes[i] = "error" }
    IN IF failed # {}
       THEN LET first == CHOOSE i \in failed : \A j \in failed : i <= j
            IN Result(500, Error("Failed to load dashboard"), m, w,
                      SubSeq(issued, 1, first))
       ELSE Result(200,
                   [message |-> "Admin dashboard data",
                    user |-> [username |-> sess.adminUsername,
                              email |-> sess.adminEmail],
                    stats |-> [pendingUploads |-> list(1).KeyCount,
                               approvedContent |-> list(2).KeyCount,
                               featuredContent |-> list(3).KeyCount,
                               s3Buckets |-> S3_BUCKETS]],
                   m, w, issued)

\* the handler of GET /api/admin/content
contentHandler(sess, status, userId, m, w, outcomes) ==
    LET base == CASE status = "pending" -> << "pending-uploads", "/" >>
                  [] status = "approved" -> << "approved-content", "/" >>
                  [] status = "featured" -> << "featured-showcase", "/" >>
                  [] OTHER -> << >>
        prefix == IF userId # << >> /\ base # << >>
                  THEN base \o userId \o << "/" >> ELSE base
        issued == << ListCall(S3_BUCKETS.media, prefix, 100) >>
        response == ListObjectsV2(m, prefix, 100)
    IN IF outcomes[1] = "error"
       THEN Result(500, Error("Failed to fetch content"), m, w, issued)
       ELSE Result(200,
                   [content |-> response.Contents,
                    count |-> response.KeyCount,
                    bucket |-> S3_BUCKETS.media,
                    filters |-> [status |-> status, userId |-> userId,
                                 contentType |-> "all"]],
                   m, w, issued)

\* the approve handler without the test of s3Key
approveHandlerNoKeyTest(sess, s3Key, userId, propertyId, m, w, outcomes, t) ==
    IF s3Key.type # "string"                            \* s3Key.split
    THEN Result(500, Error("Failed to approve content"), m, w, << >>)
    ELSE LET fileName == lastSegment(s3Key.chars)
             originalKey == generateS3Key("approved_original", userId,
                                          propertyId, fileName, t)
             issued == << CopyCall(S3_BUCKETS.media, s3Key.chars, originalKey,
                                   [status |-> "approved",
                                    approvedDate |-> t,
                                    adminNotes |-> "",
                                    approvedBy |-> sess.adminUsername]) >>
         IN IF CopyFails(m, s3Key.chars, outcomes[1])
            THEN Result(500, Error("Failed to approve content"), m, w, issued)
            ELSE Result(200,
                        [success |-> TRUE,
                         message |-> "Content approved successfully",
                         originalKey |-> originalKey,
                         approvedBy |-> sess.adminUsername,
                         s3Bucket |-> S3_BUCKETS.media],
                        WithObject(m, originalKey, m[s3Key.chars]), w, issued)

\* the handler of POST /api/admin/content/:contentId/approve
approveHandler(sess, s3Key, userId, propertyId, m, w, outcomes, t) ==
    IF ~Truthy(s3Key)
    THEN Result(400, Error("S3 key required"), m, w, << >>)
    ELSE IF s3Key.type # "string"                       \* s3Key.split
    THEN Result(500, Error("Failed to approve content"), m, w, << >>)
    ELSE LET fileName == lastSegment(s3Key.chars)
             originalKey == generateS3Key("approved_original", userId,
                                          propertyId, fileName, t)
             issued == << CopyCall(S3_BUCKETS.media, s3Key.chars, originalKey,
                                   [status |-> "approved",
                                    approvedDate |-> t,
                                    adminNotes |-> "",
                                    approvedBy |-> sess.adminUsername]) >>
         IN IF CopyFails(m, s3Key.chars, outcomes[1])
            THEN Result(500, Error("Failed to approve content"), m, w, issued)
            ELSE Result(200,
                        [success |-> TRUE,
                         message |-> "Content approved successfully",
                         originalKey |-> originalKey,
                         approvedBy |-> sess.adminUsername,
                         s3Bucket |-> S3_BUCKETS.media],
                        WithObject(m, originalKey, m[s3Key.chars]), w, issued)

\* the feature handler with the sanitized file name in the public key too
featureHandlerCleanPublicKey(sess, s3Key, userId, propertyId, m, w, outcomes, t) ==
    IF ~Truthy(s3Key)
    THEN Result(400, Error("S3 key required"), m, w, << >>)
    ELSE IF s3Key.type # "string"
    THEN Result(500, Error("Failed to feature content"), m, w, << >>)
    ELSE LET fileName == lastSegment(s3Key.chars)
             featuredKey == generateS3Key("featured", userId, propertyId,
                                          fileName, t)
             publicKey == << "assets", "/", "properties", "/" >>
                            \o Interpolate(propertyId) \o << "/" >>
                            \o clean(fileName)
             copy1 == CopyCall(S3_BUCKETS.media, s3Key.chars, featuredKey,
                               [status |-> "featured", featuredDate |-> t,
                                position |-> "gallery", priority |-> "1",
                                featuredBy |-> sess.adminUsername])
             copy2 == CopyCall(S3_BUCKETS.web, s3Key.chars, publicKey,
                               [source |-> "featured", featuredDate |-> t])
         IN IF CopyFails(m, s3Key.chars, outcomes[1])
            THEN Result(500, Error("Failed to feature content"), m, w,
                        << copy1 >>)
            ELSE LET m1 == WithObject(m, featuredKey, m[s3Key.chars])
                 IN IF CopyFails(m1, s3Key.chars, outcomes[2])
                    THEN Result(500, Error("Failed to feature content"), m1, w,
                                << copy1, copy2 >>)
                    ELSE Result(200,
                                [success |-> TRUE,
                                 message |-> "Content featured successfully",
                                 featuredKey |-> featuredKey,
                                 publicKey |-> publicKey,
                                 featuredBy |-> sess.adminUsername,
                                 buckets |-> S3_BUCKETS],
                                m1, WithObject(w, publicKey, m1[s3Key.chars]),
                                << copy1, copy2 >>)

\* the feature handler compensating a failed public copy: it deletes the
\* featured copy again
featureHandlerRollsBack(sess, s3Key, userId, propertyId, m, w, outcomes, t) ==
    IF ~Truthy(s3Key)
    THEN Result(400, Error("S3 key required"), m, w, << >>)
    ELSE IF s3Key.type # "string"
    THEN Result(500, Error("Failed to feature content"), m, w, << >>)
    ELSE LET fileName == lastSegment(s3Key.chars)
             featuredKey == generateS3Key("featured", userId, propertyId,
                                          fileName, t)
             publicKey == << "assets", "/", "properties", "/" >>
                            \o Interpolate(propertyId) \o << "/" >> \o fileName
             copy1 == CopyCall(S3_BUCKETS.media, s3Key.chars, featuredKey,
                               [status |-> "featured", featuredDate |-> t,
                                position |-> "gallery", priority |-> "1",
                                featuredBy |-> sess.adminUsername])
             copy2 == CopyCall(S3_BUCKETS.web, s3Key.chars, publicKey,
                               [source |-> "featured", featuredDate |-> t])
             undo == [op |-> "delete", bucket |-> S3_BUCKETS.media,
                      key |-> featuredKey, source |-> << >>, maxKeys |-> 0,
                      metadata |-> << >>]
         IN IF CopyFails(m, s3Key.chars, outcomes[1])
            THEN Result(500, Error("Failed to feature content"), m, w,
                        << copy1 >>)
            ELSE LET m1 == WithObject(m, featuredKey, m[s3Key.chars])
                 IN IF CopyFails(m1, s3Key.chars, outcomes[2])
                    THEN Result(500, Error("Failed to feature content"),
                                [k \in DOMAIN m1 \ { featuredKey } |-> m1[k]],
                                w, << copy1, copy2, undo >>)
                    ELSE Result(200,
                                [success |-> TRUE,
                                 message |-> "Content featured successfully",
                                 featuredKey |-> featuredKey,
                                 publicKey |-> publicKey,
                                 featuredBy |-> sess.adminUsername,
                                 buckets |-> S3_BUCKETS],
                                m1, WithObject(w, publicKey, m1[s3Key.chars]),
                                << copy1, copy2 >>)

\* the feature handler with its two copies in the other order: the public
\* mirror first, the featured copy second
featureHandlerPublicFirst(sess, s3Key, userId, propertyId, m, w, outcomes, t) ==
    IF ~Truthy(s3Key)
    THEN Result(400, Error("S3 key required"), m, w, << >>)
    ELSE IF s3Key.type # "string"
    THEN Result(500, Error("Failed to feature content"), m, w, << >>)
    ELSE LET fileName == lastSegment(s3Key.chars)
             featuredKey == generateS3Key("featured", userId, propertyId,
                                          fileName, t)
             publicKey == << "assets", "/", "properties", "/" >>
                            \o Interpolate(propertyId) \o << "/" >> \o fileName
             copy1 == CopyCall(S3_BUCKETS.web, s3Key.chars, publicKey,
                               [source |-> "featured", featuredDate |-> t])
             copy2 == CopyCall(S3_BUCKETS.media, s3Key.chars, featuredKey,
                               [status |-> "featured", featuredDate |-> t,
                                position |-> "gallery", priority |-> "1",
                                featuredBy |-> sess.adminUsername])
         IN IF CopyFails(m, s3Key.chars, outcomes[1])
            THEN Result(500, Error("Failed to feature content"), m, w,
                        << copy1 >>)
            ELSE LET w1 == WithObject(w, publicKey, m[s3Key.chars])
                 IN IF CopyFails(m, s3Key.chars, outcomes[2])
                    THEN Result(500, Error("Failed to feature content"), m, w1,
                                << copy1, copy2 >>)
                    ELSE Result(200,
                                [success |-> TRUE,
                                 message |-> "Content featured successfully",
                                 featuredKey |-> featuredKey,
                                 publicKey |-> publicKey,
                                 featuredBy |-> sess.adminUsername,
                                 buckets |-> S3_BUCKETS],
                                WithObject(m, featuredKey, m[s3Key.chars]), w1,
                                << copy1, copy2 >>)

\* the handler of POST /api/admin/content/:contentId/feature
featureHandler(sess, s3Key, userId, propertyId, m, w, outcomes, t) ==
    IF ~Truthy(s3Key)
    THEN Result(400, Error("S3 key required"), m, w, << >>)
    ELSE IF s3Key.type # "string"                       \* s3Key.split
    THEN Result(500, Error("Failed to feature content"), m, w, << >>)
    ELSE LET fileName == lastSegment(s3Key.chars)
             featuredKey == generateS3Key("featured", userId, propertyId,
                                          fileName, t)
             publicKey == << "assets", "/", "properties", "/" >>
                            \o Interpolate(propertyId) \o << "/" >> \o fileName
             copy1 == CopyCall(S3_BUCKETS.media, s3Key.chars, featuredKey,
                               [status |-> "featured", featuredDate |-> t,
                                position |-> "gallery", priority |-> "1",
                                featuredBy |-> sess.adminUsername])
             copy2 == CopyCall(S3_BUCKETS.web, s3Key.chars, publicKey,
                               [source |-> "featured", featuredDate |-> t])
         IN IF CopyFails(m, s3Key.chars, outcomes[1])
            THEN Result(500, Error("Failed to feature content"), m, w,
                        << copy1 >>)
            ELSE LET m1 == WithObject(m, featuredKey, m[s3Key.chars])
                 IN IF CopyFails(m1, s3Key.chars, outcomes[2])
                    THEN Result(500, Error("Failed to feature content"), m1, w,
                                << copy1, copy2 >>)
                    ELSE Result(200,
                                [success |-> TRUE,
                                 message |-> "Content featured successfully",
                                 featuredKey |-> featuredKey,
                                 publicKey |-> publicKey,
                                 featuredBy |-> sess.adminUsername,
                                 buckets |-> S3_BUCKETS],
                                m1, WithObject(w, publicKey, m1[s3Key.chars]),
                                << copy1, copy2 >>)

\* the reject handler removing what it rejects: it deletes every pending
\* object
rejectHandlerDeletes(sess, contentId, rejectionReason, m, w, t) ==
    Result(200,
           [success |-> TRUE, message |-> "Content rejected",
            contentId |-> contentId, rejectedBy |-> sess.adminUsername,
            rejectedAt |-> t, reason |-> rejectionReason],
           [k \in { x \in DOMAIN m : ~StartsWith(x, << "pending-uploads", "/" >>) }
              |-> m[k]],
           w,
           << [op |-> "delete", bucket |-> S3_BUCKETS.media,
               key |-> << "pending-uploads", "/" >>, source |-> << >>,
               maxKeys |-> 0, metadata |-> << >>] >>)

\* the handler of POST /api/admin/content/:contentId/reject
rejectHandler(sess, contentId, rejectionReason, m, w, t) ==
    Result(200,
           [success |-> TRUE, message |-> "Content rejected",
            contentId |-> contentId, rejectedBy |-> sess.adminUsername,
            rejectedAt |-> t, reason |-> rejectionReason],
           m, w, << >>)

\* the handler of GET /api/admin/health
healthHandler(m, w, t) ==
    Result(200,
           [status |-> "healthy", timestamp |-> t, s3Buckets |-> S3_BUCKETS,
            auth |-> "operational"],
           m, w, << >>)

folders == << << "pending-uploads", "/" >>, << "approved-content", "/" >>,
              << "featured-showcase", "/" >>, << "thumbnails", "/" >>,
              << "processed", "/" >> >>

\* the loop of init-s3 without the inner try: the first failed put ends it
RECURSIVE putFoldersStopsAtFailure(_, _, _, _)
putFoldersStopsAtFailure(i, m, outcomes, by) ==
    IF i > Len(folders) THEN [media |-> m, calls |-> << >>]
    ELSE LET key == folders[i] \o << ".keep" >>
             call == PutCall(S3_BUCKETS.media, key,
                             [purpose |-> "folder-structure", createdBy |-> by])
         IN IF outcomes[i] = "error"
            THEN [media |-> m, calls |-> << call >>]
            ELSE LET more == putFoldersStopsAtFailure(i + 1,
                                                      WithObject(m, key, ""),
                                                      outcomes, by)
                 IN [media |-> more.media, calls |-> << call >> \o more.calls]

\* the loop of init-s3 over folders[i..]: one put per folder, a failed put
\* is logged and the loop goes on
RECURSIVE putFolders(_, _, _, _)
putFolders(i, m, outcomes, by) ==
    IF i > Len(folders) THEN [media |-> m, calls |-> << >>]
    ELSE LET key == folders[i] \o << ".keep" >>
             call == PutCall(S3_BUCKETS.media, key,
                             [purpose |-> "folder-structure", createdBy |-> by])
             m1 == IF outcomes[i] = "error" THEN m ELSE WithObject(m, key, "")
             more == putFolders(i + 1, m1, outcomes, by)
         IN [media |-> more.media, calls |-> << call >> \o more.calls]

\* the handler of POST /api/admin/init-s3
initS3Handler(sess, m, w, outcomes) ==
    LET done == putFolders(1, m, outcomes, sess.adminUsername)
    IN Result(200,
              [success |-> TRUE, message |-> "S3 bucket structure initialized",
               bucket |-> S3_BUCKETS.media, folders |-> folders],
              done.media, w, done.calls)

----------------------------------------------------------------------------
(* Requests *)

\* an object uploaded by a user, pending review: "a b.jpg" of property 42
pendingKey == << "pending-uploads", "/", "u1", "/", "property-", "42", "/",
                 "images", "/", "a", " ", "b", ".", "j", "p", "g" >>

Ok == [i \in 1..5 |-> "ok"]

\* req.session as the session layer hands it to the route
Loaded == LoadSession(session, expires, now)

\* a request without inputs: its route, its time, the session it came with
Request(route) == [route |-> route, time |-> now, session |-> Loaded]

\* what the client sent with request r: its route and its parameters
Inputs(r) ==
    [f \in DOMAIN r \ { "time", "session", "outcomes", "repeats" } |-> r[f]]

\* whether request r repeats the request before it: the same route and
\* inputs, the earlier one answered 200, at once or at a later time
Repeats(r) ==
    IF req.route = r.route /\ resp.status = 200 /\ Inputs(req) = Inputs(r)
    THEN IF req.time = r.time THEN "at once" ELSE "later"
    ELSE "no"

\* what every request leaves behind: the session as the session layer stores
\* it on the way out, the response, the buckets and the calls issued; the
\* request is kept together with whether it repeats the one before it
Respond(r, sess, out) ==
    /\ session' = sess
    /\ expires' = StoreExpires(sess, now)
    /\ req' = r @@ [repeats |-> Repeats(r)]
    /\ resp' = [status |-> out.status, body |-> out.body]
    /\ media' = out.media
    /\ web' = out.web
    /\ calls' = out.calls
    /\ UNCHANGED << now, devMode, flight >>

\* a response of the authentication handlers or of a gate: no store call
Plain(out) == Result(out.status, out.body, media, web, << >>)

\* POST /api/admin/auth/login, authLimiter in front of the handler
Login(usernames, passwords, backends, maxHits) ==
    \E username \in usernames, password \in passwords, backend \in backends :
      LET sess == Loaded
          lim == authLimiter(devMode, hits, resetTime, now)
          r == [route |-> "login", time |-> now, session |-> sess,
                username |-> username, password |-> password,
                backend |-> backend]
          out == loginHandler(sess, username, password, backend, now)
      IN /\ lim.hits <= maxHits
         /\ hits' = lim.hits
         /\ resetTime' = lim.resetTime
         /\ IF lim.next
            THEN Respond(r, out.session, Plain(out))
            ELSE Respond(r, sess,
                         Plain([status |-> 429,
                                body |-> Error("Too many authentication attempts, please try again later.")]))

\* GET /api/admin/auth/status
Status ==
    LET out == statusHandler(Loaded)
    IN /\ Respond(Request("status"), out.session, Plain(out))
       /\ UNCHANGED << hits, resetTime >>

\* POST /api/admin/auth/logout
Logout ==
    LET out == logoutHandler(Loaded)
    IN /\ Respond(Request("logout"), out.session, Plain(out))
       /\ UNCHANGED << hits, resetTime >>

\* a route registered after the pre-filter with requireAuth in front of its
\* handler; out is what the handler does with the session the gates let
\* through
Protected(r, g, out) ==
    /\ IF g.next THEN Respond(r, g.session, out)
       ELSE Respond(r, g.session, Plain(g))
    /\ UNCHANGED << hits, resetTime >>

Gate == Guarded(Loaded, now)

\* GET /api/admin/dashboard
Dashboard(outcomes) ==
    \E o \in outcomes :
      Protected([route |-> "dashboard", time |-> now, session |-> Loaded,
                 outcomes |-> o], Gate,
                dashboardHandler(Gate.session, media, web, o))

\* GET /api/admin/content
Content(statuses, userIds, outcomes) ==
    \E status \in statuses, userId \in userIds, o \in outcomes :
      Protected([route |-> "content", time |-> now, session |-> Loaded,
                 status |-> status,
                 userId |-> userId, outcomes |-> o], Gate,
                contentHandler(Gate.session, status, userId, media, web, o))

\* POST /api/admin/content/:contentId/approve
Approve(s3Keys, userIds, propertyIds, outcomes) ==
    \E s3Key \in s3Keys, userId \in userIds, propertyId \in propertyIds,
       o \in outcomes :
      Protected([route |-> "approve", time |-> now, session |-> Loaded,
                 s3Key |-> s3Key,
                 userId |-> userId, propertyId |-> propertyId, outcomes |-> o],
                Gate,
                approveHandler(Gate.session, s3Key, userId, propertyId,
                               media, web, o, now))

\* POST /api/admin/content/:contentId/feature
Feature(s3Keys, userIds, propertyIds, outcomes) ==
    \E s3Key \in s3Keys, userId \in userIds, propertyId \in propertyIds,
       o \in outcomes :
      Protected([route |-> "feature", time |-> now, session |-> Loaded,
                 s3Key |-> s3Key,
                 userId |-> userId, propertyId |-> propertyId, outcomes |-> o],
                Gate,
                featureHandler(Gate.session, s3Key, userId, propertyId,
                               media, web, o, now))

\* POST /api/admin/content/:contentId/reject
Reject(contentIds, reasons) ==
    \E contentId \in contentIds, rejectionReason \in reasons :
      Protected([route |-> "reject", time |-> now, session |-> Loaded,
                 contentId |-> contentId,
                 rejectionReason |-> rejectionReason], Gate,
                rejectHandler(Gate.session, contentId, rejectionReason,
                              media, web, now))

\* POST /api/admin/init-s3
InitS3(outcomes) ==
    \E o \in outcomes :
      Protected([route |-> "init-s3", time |-> now, session |-> Loaded,
                 outcomes |-> o], Gate,
                initS3Handler(Gate.session, media, web, o))

\* GET /api/admin/health: registered after the pre-filter, without requireAuth
Health ==
    LET pf == preFilter(Loaded, now)
    IN /\ IF pf.next
          THEN Respond(Request("health"), pf.session,
                       healthHandler(media, web, now))
          ELSE Respond(Request("health"), pf.session, Plain(pf))
       /\ UNCHANGED << hits, resetTime >>

\* time passes
Tick(step, maxTime) ==
    /\ now + step <= maxTime
    /\ now' = now + step
    /\ UNCHANGED << devMode, session, expires, hits, resetTime, media, web,
                    req, resp, calls, flight >>

Init ==
    /\ now = 0
    /\ devMode \in BOOLEAN
    /\ session = NoSession
    /\ expires = 0
    /\ hits = 0
    /\ resetTime = 0
    /\ media = WithObject(EmptyBucket, pendingKey, "img1")
    /\ web = EmptyBucket
    /\ req = [route |-> "none", time |-> 0, session |-> NoSession,
             repeats |-> "no"]
    /\ resp = [status |-> 0, body |-> Error("")]
    /\ calls = << >>
    /\ flight = << >>

----------------------------------------------------------------------------
(* Spec: the gates and the session over hours.  One good and one bad login, *)
(* the object store always answers.                                         *)

GateUsernames == { Str(admin) }
GatePasswords == { Str(pwFallback), Str(pwOther) }
GateBackends == { b \in SecretBackend : b.send = "throws" }
GateKeys == { Str(pendingKey) }

Next ==
    \/ Login(GateUsernames, GatePasswords, GateBackends, GateMaxHits)
    \/ Status
    \/ Logout
    \/ Dashboard({Ok})
    \/ Content({"pending"}, {<< >>}, {Ok})
    \/ Approve(GateKeys, {Str(<< "u1" >>)}, {Str(<< "42" >>)}, {Ok})
    \/ Feature(GateKeys, {Str(<< "u1" >>)}, {Str(<< "42" >>)}, {Ok})
    \/ Reject({"c1"}, {"blurry"})
    \/ InitS3({Ok})
    \/ Health
    \/ Tick(TickMin, MaxTime)

Spec == Init /\ [][Next]_vars

----------------------------------------------------------------------------
(* SpecLimiter: login attempts within and across rate-limit windows, on a   *)
(* clock of LimTickMin minutes; the routes that mutate the buckets are left *)
(* out.                                                                     *)

LimUsernames == { Str(admin), Str(<< >>) }
LimPasswords == { Str(pwFallback), Str(pwOther) }

NextLimiter ==
    \/ Login(LimUsernames, LimPasswords, GateBackends, MaxHits)
    \/ Status
    \/ Logout
    \/ Dashboard({Ok})
    \/ Health
    \/ Tick(LimTickMin, LimMaxTime)

SpecLimiter == Init /\ [][NextLimiter]_vars

----------------------------------------------------------------------------
(* SpecLogin: every kind of user name, password and secret-backend answer,  *)
(* in production mode, in two rate-limit windows.                           *)

Usernames == { Str(<< " " >> \o Admin \o << " " >>), Str(bob), Str(<< >>),
               Number7 }
Passwords == { Str(pwSecret), Str(pwFallback), Undefined }

InitLogin == Init /\ ~devMode

NextLogin ==
    \/ Login(Usernames, Passwords, SecretBackend, MaxHits)
    \/ Status
    \/ Logout
    \/ Dashboard({Ok})
    \/ Content({"pending"}, {<< >>}, {Ok})
    \/ Approve(GateKeys, {Str(<< "u1" >>)}, {Str(<< "42" >>)}, {Ok})
    \/ Feature(GateKeys, {Str(<< "u1" >>)}, {Str(<< "42" >>)}, {Ok})
    \/ Reject({"c1"}, {"blurry"})
    \/ InitS3({Ok})
    \/ Health
    \/ Tick(LimMaxTime, LimMaxTime)

SpecLogin == InitLogin /\ [][NextLogin]_vars

----------------------------------------------------------------------------
(* Properties of the gates *)

\* the routes registered with requireAuth
ProtectedRoutes == { "dashboard", "content", "approve", "feature", "reject",
                     "init-s3" }

\* the last request came with an authenticated session idle for more than
\* the timeout
CameIdle == /\ req.session.adminAuthenticated
            /\ req.time - req.session.lastActivity > sessionTimeout

\* C1: a request to a protected route issues object-store calls only if it
\* came with a session that is authenticated and not idle for more than 2
\* hours; a request that came unauthenticated is answered 401 with the
\* login redirect hint and issues no call.
C1_StoreCallsOnlyWhenAuthenticated ==
    req.route \in ProtectedRoutes =>
      /\ calls # << >> =>
           /\ req.session.adminAuthenticated
           /\ req.time - req.session.lastActivity <= sessionTimeout
      /\ ~req.session.adminAuthenticated =>
           /\ resp = [status |-> 401,
                      body |-> [error |-> "Authentication required",
                                redirectTo |-> "/admin/login"]]
           /\ calls = << >>

\* an unauthenticated feature request is refused after an authenticated one
\* had copied an object into the public bucket
C1_Witness ==
    /\ req.route = "feature"
    /\ ~req.session.adminAuthenticated
    /\ resp.status = 401
    /\ web # EmptyBucket

\* C2: a protected request that comes with an authenticated session idle
\* for more than 2 hours is answered 401 'Session expired', the session is
\* destroyed and the handler does not run (no store call, buckets as they
\* were); from then on a status query on an unauthenticated session reports
\* authenticated: false, and only a successful login makes an
\* unauthenticated session authenticated.
C2_ExpiredSessionRejected ==
    [][ now' = now =>
          /\ ( /\ req'.route \in ProtectedRoutes
               /\ Loaded.adminAuthenticated
               /\ now - Loaded.lastActivity > sessionTimeout )
             => /\ resp' = [status |-> 401,
                            body |-> [error |-> "Session expired",
                                      redirectTo |-> "/admin/login"]]
                /\ session' = NoSession
                /\ calls' = << >>
                /\ media' = media /\ web' = web
          /\ (~Loaded.adminAuthenticated /\ req'.route = "status")
             => resp'.body = [authenticated |-> FALSE]
          /\ (~Loaded.adminAuthenticated /\ session'.adminAuthenticated)
             => req'.route = "login" /\ resp'.status = 200
      ]_vars

\* a dashboard request came idle and was refused as expired
C2_Witness ==
    /\ req.route = "dashboard"
    /\ CameIdle
    /\ resp.status = 401
    /\ resp.body.error = "Session expired"
    /\ session = NoSession

\* C3: whenever a status, logout, health or protected request comes with an
\* authenticated session idle for more than 2 hours, the session is
\* destroyed, and no status response reports authenticated: true for it.
C3_IdleSessionNeverUsed ==
    ( /\ req.route \in ProtectedRoutes \cup { "status", "logout", "health" }
      /\ CameIdle )
    => /\ session = NoSession
       /\ ~(req.route = "status" /\ resp.body.authenticated)

\* C8: logout destroys the session whatever session it came with and
\* answers 200 (500 only when the destroy reports an error); the next status
\* query reports authenticated: false and the next protected request is
\* answered 401 'Authentication required'.
C8_LogoutDestroys ==
    /\ [](req.route = "logout" =>
            /\ calls = << >>
            /\ IF DestroySession(req.session).err
               THEN resp.status = 500
               ELSE /\ resp = [status |-> 200,
                               body |-> [success |-> TRUE,
                                         message |-> "Logged out successfully"]]
                    /\ session = NoSession)
    /\ [][ (req.route = "logout" /\ resp.status = 200) =>
             /\ req'.route = "status" =>
                  resp' = [status |-> 200, body |-> [authenticated |-> FALSE]]
             /\ req'.route \in ProtectedRoutes =>
                  resp' = [status |-> 401,
                           body |-> [error |-> "Authentication required",
                                     redirectTo |-> "/admin/login"]]
         ]_vars

\* a logout that came with an authenticated session idle for more than 2
\* hours
C8_Witness ==
    /\ req.route = "logout"
    /\ CameIdle
    /\ resp.status = 200
    /\ session = NoSession

\* C9: the status query answers 200 in every session state, with the five
\* fields of an authenticated session or with authenticated: false, issues
\* no store call and leaves the session record as it came.
C9_StatusReadOnly ==
    req.route = "status" =>
      /\ resp.status = 200
      /\ resp.body = IF req.session.adminAuthenticated
                     THEN [authenticated |-> TRUE,
                           username |-> req.session.adminUsername,
                           email |-> req.session.adminEmail,
                           loginTime |-> req.session.loginTime,
                           lastActivity |-> req.session.lastActivity]
                     ELSE [authenticated |-> FALSE]
      /\ session = req.session
      /\ calls = << >>

\* a status query on an authenticated session, some time after its last
\* activity
C9_Witness ==
    /\ req.route = "status"
    /\ resp.body.authenticated
    /\ req.time > req.session.lastActivity
    /\ session.lastActivity = req.session.lastActivity

\* C10: the health endpoint answers 200 with status and bucket
\* configuration in every session state.
C10_HealthAlways200 ==
    req.route = "health" =>
      /\ resp.status = 200
      /\ resp.body.status = "healthy"
      /\ resp.body.s3Buckets = S3_BUCKETS

----------------------------------------------------------------------------
(* Properties of login *)

TooMany == [status |-> 429,
            body |-> [error |-> "Too many authentication attempts, please try again later."]]

\* C4: outside development mode, a login attempt counted as the sixth or a
\* later one of its 15-minute window is answered 429 whatever its fields
\* are, and leaves the session as it came; in development mode no attempt is
\* answered 429.
C4_RateLimit ==
    req.route = "login" =>
      /\ (~devMode /\ hits > max) =>
           /\ resp = TooMany
           /\ session = req.session
           /\ calls = << >>
      /\ devMode => resp.status # 429

\* the sixth attempt of a window, made some minutes into it with the right
\* credentials, is refused
C4_Witness ==
    /\ req.route = "login"
    /\ req.username = Str(admin)
    /\ req.password = Str(pwFallback)
    /\ req.time > 0
    /\ hits = max + 1
    /\ resp.status = 429

\* the submitted fields are non-empty
NonEmptyFields == Truthy(req.username) /\ Truthy(req.password)

\* the submitted user name equals the stored one case-insensitively after
\* trimming, and the submitted password verifies against the stored hash
UsernameMatches ==
    LET stored == getAdminCredentials(req.backend).username
    IN /\ req.username.type = "string" /\ stored.type = "string"
       /\ trim(toLowerCase(req.username.chars)) = trim(toLowerCase(stored.chars))

PasswordVerifies ==
    LET hash == getAdminCredentials(req.backend).passwordHash
    IN /\ req.password.type = "string" /\ hash.type = "string"
       /\ bcryptCompare(req.password, hash)

\* the last request established a session for the stored identity
Established ==
    /\ resp.status = 200
    /\ session = [adminAuthenticated |-> TRUE,
                  adminUsername |-> getAdminCredentials(req.backend).username,
                  adminEmail |-> getAdminCredentials(req.backend).email,
                  loginTime |-> req.time,
                  lastActivity |-> req.time]

\* a session is authenticated only if it came authenticated into the last
\* request or the last request was a successful login
OnlyLoginAuthenticates ==
    session.adminAuthenticated =>
      \/ req.session.adminAuthenticated
      \/ req.route = "login" /\ resp.status = 200

\* C5 as stated: a login request with non-empty fields establishes an
\* authenticated session, recording the stored user name and email, if and
\* only if user name and password both match; nothing but a successful
\* login authenticates a session.
C5_LoginIffCredentialsMatch ==
    /\ (req.route = "login" /\ NonEmptyFields) =>
         /\ Established <=> (UsernameMatches /\ PasswordVerifies)
         /\ resp.status = 200 => Established
    /\ OnlyLoginAuthenticates

\* C5 as amended: the same, for a login request that the rate limiter lets
\* through.
C5_LoginIffCredentialsMatchUnlessLimited ==
    /\ (req.route = "login" /\ NonEmptyFields /\ resp.status # 429) =>
         /\ Established <=> (UsernameMatches /\ PasswordVerifies)
         /\ resp.status = 200 => Established
    /\ OnlyLoginAuthenticates

\* " Admin " logs in against the stored user name "Admin"
C5_Witness ==
    /\ req.route = "login"
    /\ req.username = Str(<< " " >> \o Admin \o << " " >>)
    /\ req.backend.value = storedCreds
    /\ Established
    /\ session.adminUsername = Str(Admin)

\* C6: a login with non-empty string fields that fails credential checking
\* gets the same response, 401 'Invalid credentials', and leaves the session
\* as it came, whichever of the two checks failed.
C6_SameFailureResponse ==
    ( /\ req.route = "login" /\ NonEmptyFields
      /\ resp.status \notin { 429, 500 }
      /\ ~(UsernameMatches /\ PasswordVerifies) )
    => /\ resp = [status |-> 401, body |-> [error |-> "Invalid credentials"]]
       /\ session = req.session
       /\ calls = << >>

\* a wrong user name with a password that verifies
C6_Witness ==
    /\ req.route = "login"
    /\ ~UsernameMatches /\ PasswordVerifies
    /\ resp.status = 401

\* C7: a login with non-empty string fields that the rate limiter lets
\* through ends in 200 or 401, whatever the secret backend answered.
C7_LoginNever500 ==
    ( /\ req.route = "login" /\ NonEmptyFields
      /\ req.username.type = "string" /\ req.password.type = "string"
      /\ resp.status # 429 )
    => resp.status \in { 200, 401 }

----------------------------------------------------------------------------
(* SpecContent: the content handlers on every kind of input, with an object *)
(* store whose calls may fail, on two calendar days.                        *)

\* outcomes of the calls of one request: the calls numbered in S fail
Fail(S) == [i \in 1..5 |-> IF i \in S THEN "error" ELSE "ok"]

u1 == << "u1" >>
u2 == << "u2" >>

\* a key under pending-uploads/ that no object has
missingKey == << "pending-uploads", "/", "u1", "/", "property-", "42", "/",
                 "images", "/", "x", ".", "j" >>

ContentKeys == { Str(pendingKey), Str(missingKey), Str(<< >>), Undefined }
ContentUserIds == { Str(u1), Str(u2) }
ContentPropertyIds == { Str(<< "42" >>) }
ContentStatuses == { "all", "pending", "approved", "featured" }
ContentFilters == { << >>, u1 }
CopyOutcomes == { Ok, Fail({1}), Fail({2}) }
ListOutcomes == { Ok, Fail({2}) }
ContentIds == { "c1", "c2" }
Reasons == { "blurry", "" }
PutOutcomes == { Ok, Fail({2, 5}), Fail(1..5) }

\* the rate limiter is kept out of the way: development mode
InitContent == Init /\ devMode

NextContent ==
    \/ Login(GateUsernames, { Str(pwFallback) }, GateBackends, GateMaxHits)
    \/ Logout
    \/ Dashboard(ListOutcomes)
    \/ Content(ContentStatuses, ContentFilters, { Ok, Fail({1}) })
    \/ Approve(ContentKeys, ContentUserIds, ContentPropertyIds,
               { Ok, Fail({1}) })
    \/ Feature({ Str(pendingKey), Undefined }, { Str(u1) }, ContentPropertyIds,
               CopyOutcomes)
    \/ Reject(ContentIds, Reasons)
    \/ InitS3(PutOutcomes)
    \/ Tick(MidnightAt, MidnightAt)

SpecContent == InitContent /\ [][NextContent]_vars

----------------------------------------------------------------------------
(* Properties of the content handlers *)

\* the step is a request to route r that both gates let through
Authorised(r) == now' = now /\ req'.route = r /\ Gate.next

\* the last request went to route r and came with a session that both gates
\* let through
WasAuthorised(r) == req.route = r /\ Guarded(req.session, req.time).next

PendingPrefix == << "pending-uploads", "/" >>

\* C11: an authorised approve request whose s3Key lies under pending-uploads/
\* issues exactly one object-store call, a copy inside the media bucket from
\* s3Key to approved-content/{userId}/property-{propertyId}/original/{the
\* sanitized last segment of s3Key} with metadata status = approved and
\* approvedBy = the session's user name; the object at s3Key and every other
\* object of both buckets stay as they were, and no key disappears.
C11_ApproveCopiesOnce ==
    [][ ( /\ Authorised("approve")
          /\ req'.s3Key.type = "string"
          /\ StartsWith(req'.s3Key.chars, PendingPrefix) )
        => LET s3Key == req'.s3Key.chars
               originalKey ==
                 << "approved-content", "/" >> \o req'.userId.chars
                   \o << "/", "property-" >> \o req'.propertyId.chars
                   \o << "/", "original", "/" >> \o clean(lastSegment(s3Key))
           IN /\ Len(calls') = 1
              /\ calls'[1].op = "copy"
              /\ calls'[1].bucket = S3_BUCKETS.media
              /\ calls'[1].source = s3Key
              /\ calls'[1].key = originalKey
              /\ calls'[1].metadata.status = "approved"
              /\ calls'[1].metadata.approvedBy = Loaded.adminUsername
              /\ web' = web
              /\ DOMAIN media \subseteq DOMAIN media'
              /\ DOMAIN media' \subseteq DOMAIN media \cup { originalKey }
              /\ \A k \in DOMAIN media \ { originalKey } : media'[k] = media[k]
              /\ resp'.status = 200 =>
                   /\ originalKey \in DOMAIN media'
                   /\ media'[originalKey] = media[s3Key]
                   /\ resp'.body.originalKey = originalKey
      ]_vars

\* "pending-uploads/u1/property-42/images/a b.jpg" was approved for user u1:
\* the copy is at "approved-content/u1/property-42/original/a_b.jpg" and the
\* pending object is still there
C11_Witness ==
    /\ WasAuthorised("approve")
    /\ req.s3Key = Str(pendingKey)
    /\ req.userId = Str(u1)
    /\ resp.status = 200
    /\ Len(calls) = 1
    /\ calls[1].key = << "approved-content", "/", "u1", "/", "property-", "42",
                         "/", "original", "/", "a", "_", "b", ".", "j", "p", "g" >>
    /\ calls[1].key \in DOMAIN media
    /\ media[pendingKey] = "img1"

\* C12: a feature request answered 200 has copied the object at s3Key of the
\* media bucket to featured-showcase/curated-properties/{UTC date}_{sanitized
\* file name} in the media bucket and to assets/properties/{propertyId}/{file
\* name} in the web bucket, the file name being the last segment of s3Key, and
\* its response names both keys and both buckets.
C12_FeatureCopiesTwice ==
    (WasAuthorised("feature") /\ resp.status = 200) =>
      LET s3Key == req.s3Key.chars
          fileName == lastSegment(s3Key)
          featuredKey == << "featured-showcase", "/", "curated-properties", "/",
                            isoDate(req.time), "_" >> \o clean(fileName)
          publicKey == << "assets", "/", "properties", "/" >>
                         \o req.propertyId.chars \o << "/" >> \o fileName
      IN /\ Len(calls) = 2
         /\ calls[1].op = "copy" /\ calls[2].op = "copy"
         /\ calls[1].bucket = S3_BUCKETS.media /\ calls[1].source = s3Key
         /\ calls[1].key = featuredKey
         /\ calls[2].bucket = S3_BUCKETS.web /\ calls[2].source = s3Key
         /\ calls[2].key = publicKey
         /\ featuredKey \in DOMAIN media /\ media[featuredKey] = media[s3Key]
         /\ publicKey \in DOMAIN web /\ web[publicKey] = media[s3Key]
         /\ resp.body.featuredKey = featuredKey
         /\ resp.body.publicKey = publicKey
         /\ resp.body.buckets = [media |-> "renthabit-media",
                                 web |-> "renthabit-web-prod"]

\* "a b.jpg" of property 42 was featured on the second day: the featured key
\* carries that date and the sanitized name, the public key the name as it is
C12_Witness ==
    /\ WasAuthorised("feature")
    /\ resp.status = 200
    /\ resp.body.featuredKey =
         << "featured-showcase", "/", "curated-properties", "/", "2025-08-15",
            "_", "a", "_", "b", ".", "j", "p", "g" >>
    /\ resp.body.publicKey =
         << "assets", "/", "properties", "/", "42", "/", "a", " ", "b", ".",
            "j", "p", "g" >>
    /\ resp.body.publicKey \in DOMAIN web

\* C13: every authorised feature request that supplies s3Key attempts both
\* copies, the one into the media bucket and the one into the web bucket,
\* whatever the outcome of either.
C13_FeatureAttemptsBothCopies ==
    (WasAuthorised("feature") /\ Truthy(req.s3Key)) =>
      /\ Len(calls) = 2
      /\ calls[1].op = "copy" /\ calls[1].bucket = S3_BUCKETS.media
      /\ calls[2].op = "copy" /\ calls[2].bucket = S3_BUCKETS.web

\* the last request was a feature request whose copy into the media bucket
\* went through and whose copy into the web bucket failed
SecondCopyFailed ==
    /\ WasAuthorised("feature")
    /\ Len(calls) >= 2
    /\ resp.status # 200

\* the keys a feature request derives from its inputs
FeaturedKeyOf(r) ==
    << "featured-showcase", "/", "curated-properties", "/", isoDate(r.time),
       "_" >> \o clean(lastSegment(r.s3Key.chars))
PublicKeyOf(r) ==
    << "assets", "/", "properties", "/" >> \o r.propertyId.chars \o << "/" >>
      \o lastSegment(r.s3Key.chars)

\* C14 as stated: when the copy into the web bucket fails after the copy into
\* the media bucket succeeded, the request ends with the generic 500, no
\* delete is issued, the media bucket holds the featured object, the web
\* bucket holds no public mirror and the source object is as it was.
C14_PartialFeatureNoMirror ==
    SecondCopyFailed =>
      /\ resp = [status |-> 500, body |-> Error("Failed to feature content")]
      /\ \A i \in 1..Len(calls) : calls[i].op = "copy"
      /\ FeaturedKeyOf(req) \in DOMAIN media
      /\ media[FeaturedKeyOf(req)] = media[req.s3Key.chars]
      /\ PublicKeyOf(req) \notin DOMAIN web

\* C14 as amended: the same, with the web bucket as it was before the request
\* (the request writes no public mirror) and every object of the media
\* bucket but the featured one as it was.
C14_PartialFeatureWebUntouched ==
    [][ (SecondCopyFailed' /\ now' = now /\ req'.time = now) =>
          LET s3Key == req'.s3Key.chars
              featuredKey == FeaturedKeyOf(req')
          IN /\ resp' = [status |-> 500,
                         body |-> Error("Failed to feature content")]
             /\ Len(calls') = 2
             /\ \A i \in 1..2 : calls'[i].op = "copy"
             /\ web' = web
             /\ DOMAIN media' = DOMAIN media \cup { featuredKey }
             /\ media'[featuredKey] = media[s3Key]
             /\ \A k \in DOMAIN media \ { featuredKey } : media'[k] = media[k]
      ]_vars

\* a first feature request failed at its second copy: the featured object is
\* in the media bucket, the web bucket is empty, the source is as uploaded
C14_Witness ==
    /\ SecondCopyFailed
    /\ resp.status = 500
    /\ FeaturedKeyOf(req) \in DOMAIN media
    /\ web = EmptyBucket
    /\ media[pendingKey] = "img1"

\* C15: an authorised reject request, whatever its contentId and reason,
\* issues no object-store call, leaves both buckets exactly as they were and
\* answers with the record {contentId, rejectedBy = the session's user name,
\* rejectedAt, reason}.
C15_RejectTouchesNothing ==
    [][ Authorised("reject") =>
          /\ calls' = << >>
          /\ media' = media
          /\ web' = web
          /\ resp' = [status |-> 200,
                      body |-> [success |-> TRUE,
                                message |-> "Content rejected",
                                contentId |-> req'.contentId,
                                rejectedBy |-> Loaded.adminUsername,
                                rejectedAt |-> now,
                                reason |-> req'.rejectionReason]]
      ]_vars

\* content c2 was rejected without a reason on the second day, after the
\* object had been approved and featured: all its copies are still there
C15_Witness ==
    /\ WasAuthorised("reject")
    /\ req.contentId = "c2"
    /\ resp.status = 200
    /\ resp.body.rejectedBy = Str(admin)
    /\ resp.body.rejectedAt = MidnightAt
    /\ resp.body.reason = ""
    /\ pendingKey \in DOMAIN media
    /\ Cardinality(DOMAIN media) >= 3
    /\ web # EmptyBucket

\* the step is an approve or feature request, answered 200, that repeats the
\* request before it (same inputs, answered 200), at the same or a later time
RepeatedCopy ==
    /\ now' = now
    /\ req'.route \in { "approve", "feature" }
    /\ req'.repeats # "no"
    /\ resp'.status = 200

\* the destination keys of the calls of the step are those of the request
\* before it, and no bucket gains or loses a key
SameKeysAgain ==
    /\ [i \in 1..Len(calls') |-> calls'[i].key]
         = [i \in 1..Len(calls) |-> calls[i].key]
    /\ DOMAIN media' = DOMAIN media
    /\ DOMAIN web' = DOMAIN web

\* C16 as stated: approve and feature invoked twice with identical inputs, at
\* any two points in time, write the same destination keys both times, and
\* each bucket has the same set of keys after the second invocation as after
\* the first.
C16_IdempotentAtAnyTime ==
    [][ RepeatedCopy => SameKeysAgain ]_vars

\* C16 as amended: the same for approve at any two points in time, and for
\* feature when both invocations fall on the same UTC date.
C16_IdempotentOnSameDate ==
    [][ ( /\ RepeatedCopy
          /\ req'.route = "feature" => isoDate(req.time) = isoDate(now) )
        => SameKeysAgain ]_vars

\* the object was approved for user u2 on the first day and, with the same
\* inputs, again on the second day
C16_Witness ==
    /\ WasAuthorised("approve")
    /\ req.userId = Str(u2)
    /\ req.repeats = "later"
    /\ req.time = MidnightAt
    /\ resp.status = 200
    /\ resp.body.originalKey \in DOMAIN media

\* C17: an authorised approve or feature request whose body has no s3Key (or
\* an empty one) is answered 400 'S3 key required', issues no object-store
\* call and leaves both buckets as they were.
C17_MissingKey ==
    [][ ( /\ Authorised("approve") \/ Authorised("feature")
          /\ req'.s3Key = Undefined \/ req'.s3Key = Str(<< >>) )
        => /\ resp' = [status |-> 400, body |-> [error |-> "S3 key required"]]
           /\ calls' = << >>
           /\ media' = media
           /\ web' = web
      ]_vars

\* an approve request without s3Key was refused, the buckets holding the
\* pending object and its earlier copies
C17_Witness ==
    /\ WasAuthorised("approve")
    /\ req.s3Key = Undefined
    /\ resp.status = 400
    /\ calls = << >>
    /\ Cardinality(DOMAIN media) >= 2
    /\ web # EmptyBucket

\* the prefix that stands for a status
StatusPrefix(status) ==
    CASE status = "pending" -> << "pending-uploads", "/" >>
      [] status = "approved" -> << "approved-content", "/" >>
      [] status = "featured" -> << "featured-showcase", "/" >>
      [] status = "all" -> << >>

\* C18: an authorised content request issues one listing of at most 100 keys
\* of the media bucket, under the prefix of its status (none for all)
\* followed, whenever a userId is given and whatever the status, by that
\* userId as a further path segment, so that only keys of that user are
\* returned.
C18_ListByStatusAndUser ==
    WasAuthorised("content") =>
      LET prefix == StatusPrefix(req.status)
                      \o (IF req.userId # << >>
                          THEN req.userId \o << "/" >> ELSE << >>)
      IN /\ calls = << ListCall(S3_BUCKETS.media, prefix, 100) >>
         /\ resp.status = 200 =>
              /\ resp.body.count <= 100
              /\ \A k \in resp.body.content : StartsWith(k, prefix)

\* the number of keys of bucket under prefix, capped
CappedCount(bucket, prefix, cap) ==
    LET n == Cardinality({ k \in DOMAIN bucket : StartsWith(k, prefix) })
    IN IF n <= cap THEN n ELSE cap

\* C19: an authorised dashboard request changes nothing in either bucket and
\* issues only listings of the media bucket capped at 1000; when it answers
\* 200 it has issued three, for pending-uploads/, approved-content/ and
\* featured-showcase/, and each count it reports is the number of keys under
\* that prefix at the time of the request, markers included, or 1000 if
\* there are more.
C19_DashboardCounts ==
    [][ Authorised("dashboard") =>
          /\ media' = media
          /\ web' = web
          /\ \A i \in 1..Len(calls') :
               /\ calls'[i].op = "list"
               /\ calls'[i].bucket = S3_BUCKETS.media
               /\ calls'[i].maxKeys = 1000
          /\ resp'.status = 200 =>
               /\ [i \in 1..Len(calls') |-> calls'[i].key]
                    = << << "pending-uploads", "/" >>,
                         << "approved-content", "/" >>,
                         << "featured-showcase", "/" >> >>
               /\ resp'.body.stats.pendingUploads
                    = CappedCount(media, << "pending-uploads", "/" >>, 1000)
               /\ resp'.body.stats.approvedContent
                    = CappedCount(media, << "approved-content", "/" >>, 1000)
               /\ resp'.body.stats.featuredContent
                    = CappedCount(media, << "featured-showcase", "/" >>, 1000)
      ]_vars

\* the dashboard after the bootstrap, two approvals and one feature: the
\* pending object and the marker make 2, the approved objects and the marker
\* 3, the featured object and the marker 2
C19_Witness ==
    /\ WasAuthorised("dashboard")
    /\ resp.status = 200
    /\ resp.body.stats.pendingUploads = 2
    /\ resp.body.stats.approvedContent = 3
    /\ resp.body.stats.featuredContent = 2
    /\ << "pending-uploads", "/", ".keep" >> \in DOMAIN media

\* the marker keys of the bootstrap, in the order of its folder list
Markers == << << "pending-uploads", "/", ".keep" >>,
              << "approved-content", "/", ".keep" >>,
              << "featured-showcase", "/", ".keep" >>,
              << "thumbnails", "/", ".keep" >>,
              << "processed", "/", ".keep" >> >>

MarkerKeys == { Markers[i] : i \in 1..5 }

----------------------------------------------------------------------------
(* Properties of the session over time *)

\* the times at which the gates are compared for a session last active at la:
\* around the timeout, now, and the end of the clock
GateTimes(la) ==
    { la, la + sessionTimeout - 1, la + sessionTimeout, la + sessionTimeout + 1,
      now, MaxTime }

\* C21: for every authenticated session the program can hold and every time,
\* the pre-filter refuses the request as expired exactly when requireAuth
\* does, with the same response and the same destroyed session; at exactly 2
\* hours idle both let it through; and the pre-filter followed by requireAuth
\* gives the outcome and the session that requireAuth alone gives.  A
\* request to a protected route is answered as requireAuth alone decides.
C21_GatesAgree ==
    /\ session.adminAuthenticated =>
         \A t \in GateTimes(session.lastActivity) :
           LET pf == preFilter(session, t)
               ra == requireAuth(session, t)
           IN /\ pf.next <=> ra.next
              /\ ~pf.next => pf = ra
              /\ ra.next <=> t - session.lastActivity <= sessionTimeout
              /\ Guarded(session, t) = ra
    /\ Guarded(session, now) = requireAuth(session, now)
    /\ req.route \in ProtectedRoutes =>
         LET ra == requireAuth(req.session, req.time)
         IN /\ session = ra.session
            /\ ~ra.next => resp = [status |-> ra.status, body |-> ra.body]
            /\ ra.next => resp.status \notin { 401 }

\* a dashboard request that came exactly 2 hours idle was let through by
\* both gates
C21_Witness ==
    /\ req.route = "dashboard"
    /\ req.session.adminAuthenticated
    /\ req.time - req.session.lastActivity = sessionTimeout
    /\ resp.status = 200
    /\ session.lastActivity = req.time

\* C22: an authenticated session has loginTime <= lastActivity (and neither
\* lies in the future); a request to a protected route that the gates let
\* through leaves lastActivity at the time of that request; and from one
\* state to the next lastActivity does not decrease while the session stays
\* authenticated.
C22_LastActivityMonotonic ==
    /\ [](/\ session.adminAuthenticated =>
               /\ session.loginTime # NoTime
               /\ session.loginTime <= session.lastActivity
               /\ session.lastActivity <= now
          /\ ( /\ req.route \in ProtectedRoutes
               /\ Guarded(req.session, req.time).next )
             => /\ session.adminAuthenticated
                /\ session.lastActivity = req.time
                /\ session.loginTime = req.session.loginTime)
    /\ [][ (session.adminAuthenticated /\ session'.adminAuthenticated)
           => session'.lastActivity >= session.lastActivity ]_vars

\* an approve request let through an hour after the login and half an hour
\* after the last activity
C22_Witness ==
    /\ req.route = "approve"
    /\ resp.status = 200
    /\ req.session.loginTime < req.session.lastActivity
    /\ req.session.lastActivity < req.time
    /\ session.lastActivity = req.time

----------------------------------------------------------------------------
(* SpecConcurrent: requests of one client in flight at the same time.  A    *)
(* request gets its own copy of the session record when it arrives; the     *)
(* gates run at once, on that copy; the handler then waits for the secret   *)
(* backend or the object store, and other requests are served meanwhile.    *)
(* When the response is sent the session layer writes the copy back if the  *)
(* request changed it, and otherwise only touches the record in the store.  *)
(* Status and logout do not wait: they are served in one step.              *)

\* requests of one client in flight at the same time, at most
MaxInFlight == 2

\* the request awaits its handler: r is the request, sess its copy of the
\* session after the gates
Await(r, sess) ==
    /\ Len(flight) < MaxInFlight
    /\ flight' = Append(flight, [request |-> r, session |-> sess])
    /\ UNCHANGED << now, devMode, session, expires, media, web, req, resp,
                    calls >>

\* the flight without its i-th request
Landed(i) == SubSeq(flight, 1, i - 1) \o SubSeq(flight, i + 1, Len(flight))

\* the response of a request that was in flight: its copy sess of the
\* session is saved under its session id if the handler or a gate changed it
\* (the client is sent the cookie of that id); if not, the record is touched,
\* provided the request came with one and there is one now
Finish(i, sess, out) ==
    LET r == flight[i].request
        modified == sess # r.session
    IN /\ session' = IF modified THEN sess ELSE Loaded
       /\ expires' = IF modified THEN StoreExpires(sess, now)
                     ELSE IF r.session.adminAuthenticated
                     THEN StoreExpires(Loaded, now)
                     ELSE expires
       /\ req' = r @@ [repeats |-> Repeats(r)]
       /\ resp' = [status |-> out.status, body |-> out.body]
       /\ media' = out.media
       /\ web' = out.web
       /\ calls' = out.calls
       /\ flight' = Landed(i)
       /\ UNCHANGED << now, devMode >>

\* POST /api/admin/auth/login arrives: authLimiter counts it and answers 429
\* or passes it to the handler, which waits for the secret backend
BeginLogin(usernames, passwords, backends, maxHits) ==
    \E username \in usernames, password \in passwords, backend \in backends :
      LET sess == Loaded
          lim == authLimiter(devMode, hits, resetTime, now)
          r == [route |-> "login", time |-> now, session |-> sess,
                username |-> username, password |-> password,
                backend |-> backend]
      IN /\ lim.hits <= maxHits
         /\ hits' = lim.hits
         /\ resetTime' = lim.resetTime
         /\ IF lim.next
            THEN Await(r, sess)
            ELSE Respond(r, sess,
                         Plain([status |-> 429,
                                body |-> Error("Too many authentication attempts, please try again later.")]))

\* the login handler answers
EndLogin ==
    \E i \in 1..Len(flight) :
      LET f == flight[i]
          out == loginHandler(f.session, f.request.username,
                              f.request.password, f.request.backend, now)
      IN /\ f.request.route = "login"
         /\ Finish(i, out.session, Plain(out))
         /\ UNCHANGED << hits, resetTime >>

\* GET /api/admin/dashboard arrives: the gates answer 401 or let it through
\* to the handler, which waits for the object store
BeginDashboard(outcomes) ==
    \E o \in outcomes :
      LET r == [route |-> "dashboard", time |-> now, session |-> Loaded,
                outcomes |-> o]
      IN /\ IF Gate.next
            THEN Await(r, Gate.session)
            ELSE Respond(r, Gate.session, Plain(Gate))
         /\ UNCHANGED << hits, resetTime >>

\* the dashboard handler answers
EndDashboard ==
    \E i \in 1..Len(flight) :
      LET f == flight[i]
      IN /\ f.request.route = "dashboard"
         /\ Finish(i, f.session,
                   dashboardHandler(f.session, media, web, f.request.outcomes))
         /\ UNCHANGED << hits, resetTime >>

InitConcurrent == Init /\ devMode

NextConcurrent ==
    \/ BeginLogin(GateUsernames, { Str(pwFallback) }, GateBackends,
                  GateMaxHits)
    \/ EndLogin
    \/ Status
    \/ Logout
    \/ BeginDashboard({Ok})
    \/ EndDashboard
    \/ Tick(MidnightAt, MaxTime)

SpecConcurrent == InitConcurrent /\ [][NextConcurrent]_vars

----------------------------------------------------------------------------
(* Properties of requests in flight at the same time *)

\* C23: with requests of one session in flight at the same time, the stored
\* lastActivity of an authenticated session never decreases, and a session
\* record that is not authenticated (never logged in, or destroyed by logout
\* or by expiry) becomes authenticated, so that a later request is accepted
\* on it, only by the response of a successful login.
C23_AtomicCheckAndUpdate ==
    [][ /\ (session.adminAuthenticated /\ session'.adminAuthenticated)
           => session'.lastActivity >= session.lastActivity
        /\ (~session.adminAuthenticated /\ session'.adminAuthenticated)
           => req'.route = "login" /\ resp'.status = 200
      ]_vars

----------------------------------------------------------------------------
(* Properties of the two buckets together *)

PublicPrefix == << "assets", "/", "properties", "/" >>
FeaturedPrefix == << "featured-showcase", "/", "curated-properties", "/" >>

\* key is assets/properties/{propertyId}/{fileName} and the media bucket m
\* holds a featured object {date}_{sanitized fileName}
HasFeatured(key, m) ==
    /\ StartsWith(key, PublicPrefix)
    /\ Len(key) >= 6 /\ key[6] = "/"
    /\ \E k \in DOMAIN m :
         /\ StartsWith(k, FeaturedPrefix)
         /\ Len(k) >= 6 /\ k[6] = "_"
         /\ SubSeq(k, 7, Len(k)) = clean(SubSeq(key, 7, Len(key)))

\* C24: only a feature request answered 200 changes the web bucket; a call
\* on the web bucket is the second call of a feature request whose first
\* call, the copy to the featured key, has put that object into the media
\* bucket; and every object of the web bucket is a public mirror whose
\* featured counterpart is in the media bucket.
C24_MirrorHasFeatured ==
    /\ [](/\ \A key \in DOMAIN web : HasFeatured(key, media)
          /\ \A i \in 1..Len(calls) :
               calls[i].bucket = S3_BUCKETS.web =>
                 /\ req.route = "feature"
                 /\ i = 2
                 /\ calls[1].op = "copy"
                 /\ calls[1].bucket = S3_BUCKETS.media
                 /\ calls[1].key \in DOMAIN media)
    /\ [][ web' # web =>
             /\ req'.route = "feature"
             /\ resp'.status = 200
             /\ DOMAIN web \subseteq DOMAIN web'
         ]_vars

\* the object was featured on the first day; on the second day another
\* feature request failed at its first copy: the mirror is there, with the
\* featured object of the first day
C24_Witness ==
    /\ WasAuthorised("feature")
    /\ req.time = MidnightAt
    /\ resp.status = 500
    /\ Len(calls) = 1
    /\ DOMAIN web = { PublicPrefix \o << "42", "/", "a", " ", "b", ".", "j",
                                         "p", "g" >> }
    /\ FeaturedPrefix \o << "2025-08-14", "_", "a", "_", "b", ".", "j", "p",
                            "g" >> \in DOMAIN media
    /\ FeaturedPrefix \o << "2025-08-15", "_", "a", "_", "b", ".", "j", "p",
                            "g" >> \notin DOMAIN media

----------------------------------------------------------------------------
(* Properties of a login that does not succeed *)

\* C25: a login request that is not answered 200 is answered 400, 401, 429
\* or 500 and leaves the session record as it came: an anonymous session
\* anonymous, an authenticated one authenticated with the same user name,
\* loginTime and lastActivity.
C25_FailedLoginKeepsSession ==
    (req.route = "login" /\ resp.status # 200) =>
      /\ resp.status \in { 400, 401, 429, 500 }
      /\ session = req.session
      /\ session.adminAuthenticated = req.session.adminAuthenticated
      /\ session.adminUsername = req.session.adminUsername
      /\ session.loginTime = req.session.loginTime
      /\ session.lastActivity = req.session.lastActivity

\* a login with a wrong user name on a session that logged in earlier and
\* has been active since: it is refused and the session is as it was
C25_Witness ==
    /\ req.route = "login"
    /\ req.username = Str(bob)
    /\ resp.status = 401
    /\ req.session.adminAuthenticated
    /\ session.adminAuthenticated
    /\ session.loginTime < session.lastActivity
    /\ session.lastActivity < req.time + 1

====
